---- MODULE Spec2Model ----
(***************************************************************************)
(* Model of the two-pass RV32I assembler of src/rv32i_assembler.py         *)
(* (class RV32IAssembler).  One assembler instance is modelled; the        *)
(* environment calls assemble() on it with source texts drawn from a       *)
(* bounded set.  A source line is a record                                  *)
(*    [label |-> name before ':' ("" when the line has none),              *)
(*     head  |-> first token after the label ("" when nothing follows),    *)
(*     ops   |-> the remaining tokens, split on commas / white space]      *)
(* A blank or comment-only line has label = "" and head = "".              *)
(***************************************************************************)
EXTENDS Integers, Sequences, FiniteSets, TLC

(***************************************************************************)
(* Static tables (RV32IAssembler.__init__)                                 *)
(***************************************************************************)
NOP == 19

MAX_INSTRUCTIONS == 1024

opcodes ==
  [ lui   |-> [opcode |-> \b0110111, type |-> "U", subtype |-> ""],
    auipc |-> [opcode |-> \b0010111, type |-> "U", subtype |-> ""],
    jal   |-> [opcode |-> \b1101111, type |-> "J", subtype |-> ""],
    jalr  |-> [opcode |-> \b1100111, type |-> "I", subtype |-> ""],
    beq   |-> [opcode |-> \b1100011, type |-> "B", subtype |-> ""],
    bne   |-> [opcode |-> \b1100011, type |-> "B", subtype |-> ""],
    blt   |-> [opcode |-> \b1100011, type |-> "B", subtype |-> ""],
    bge   |-> [opcode |-> \b1100011, type |-> "B", subtype |-> ""],
    bltu  |-> [opcode |-> \b1100011, type |-> "B", subtype |-> ""],
    bgeu  |-> [opcode |-> \b1100011, type |-> "B", subtype |-> ""],
    sb    |-> [opcode |-> \b0100011, type |-> "S", subtype |-> ""],
    sh    |-> [opcode |-> \b0100011, type |-> "S", subtype |-> ""],
    sw    |-> [opcode |-> \b0100011, type |-> "S", subtype |-> ""],
    addi  |-> [opcode |-> \b0010011, type |-> "I", subtype |-> ""],
    slti  |-> [opcode |-> \b0010011, type |-> "I", subtype |-> ""],
    sltiu |-> [opcode |-> \b0010011, type |-> "I", subtype |-> ""],
    xori  |-> [opcode |-> \b0010011, type |-> "I", subtype |-> ""],
    ori   |-> [opcode |-> \b0010011, type |-> "I", subtype |-> ""],
    andi  |-> [opcode |-> \b0010011, type |-> "I", subtype |-> ""],
    slli  |-> [opcode |-> \b0010011, type |-> "I", subtype |-> "shift"],
    srli  |-> [opcode |-> \b0010011, type |-> "I", subtype |-> "shift"],
    srai  |-> [opcode |-> \b0010011, type |-> "I", subtype |-> "shift"],
    lb    |-> [opcode |-> \b0000011, type |-> "I", subtype |-> "load"],
    lh    |-> [opcode |-> \b0000011, type |-> "I", subtype |-> "load"],
    lw    |-> [opcode |-> \b0000011, type |-> "I", subtype |-> "load"],
    lbu   |-> [opcode |-> \b0000011, type |-> "I", subtype |-> "load"],
    lhu   |-> [opcode |-> \b0000011, type |-> "I", subtype |-> "load"],
    add   |-> [opcode |-> \b0110011, type |-> "R", subtype |-> ""],
    sub   |-> [opcode |-> \b0110011, type |-> "R", subtype |-> ""],
    sll   |-> [opcode |-> \b0110011, type |-> "R", subtype |-> ""],
    slt   |-> [opcode |-> \b0110011, type |-> "R", subtype |-> ""],
    sltu  |-> [opcode |-> \b0110011, type |-> "R", subtype |-> ""],
    xor   |-> [opcode |-> \b0110011, type |-> "R", subtype |-> ""],
    srl   |-> [opcode |-> \b0110011, type |-> "R", subtype |-> ""],
    sra   |-> [opcode |-> \b0110011, type |-> "R", subtype |-> ""],
    or    |-> [opcode |-> \b0110011, type |-> "R", subtype |-> ""],
    and   |-> [opcode |-> \b0110011, type |-> "R", subtype |-> ""] ]

func3 ==
  [ beq |-> \b000, bne |-> \b001, blt |-> \b100, bge |-> \b101,
    bltu |-> \b110, bgeu |-> \b111,
    lb |-> \b000, lh |-> \b001, lw |-> \b010, lbu |-> \b100, lhu |-> \b101,
    sb |-> \b000, sh |-> \b001, sw |-> \b010,
    jalr |-> \b000, addi |-> \b000, slti |-> \b010, sltiu |-> \b011,
    xori |-> \b100, ori |-> \b110, andi |-> \b111,
    slli |-> \b001, srli |-> \b101, srai |-> \b101,
    add |-> \b000, sub |-> \b000, sll |-> \b001, slt |-> \b010,
    sltu |-> \b011, xor |-> \b100, srl |-> \b101, sra |-> \b101,
    or |-> \b110, and |-> \b111 ]

func7 ==
  [ slli |-> \b0000000, srli |-> \b0000000, srai |-> \b0100000,
    add |-> \b0000000, sub |-> \b0100000, sll |-> \b0000000,
    slt |-> \b0000000, sltu |-> \b0000000, xor |-> \b0000000,
    srl |-> \b0000000, sra |-> \b0100000, or |-> \b0000000,
    and |-> \b0000000 ]

registers ==
  [ zero |-> 0, ra |-> 1, sp |-> 2, gp |-> 3, tp |-> 4, t0 |-> 5, t1 |-> 6,
    t2 |-> 7, s0 |-> 8, s1 |-> 9, a0 |-> 10, a1 |-> 11, a2 |-> 12,
    a3 |-> 13, a4 |-> 14, a5 |-> 15, a6 |-> 16, a7 |-> 17, s2 |-> 18,
    s3 |-> 19, s4 |-> 20, s5 |-> 21, s6 |-> 22, s7 |-> 23, s8 |-> 24,
    s9 |-> 25, s10 |-> 26, s11 |-> 27, t3 |-> 28, t4 |-> 29, t5 |-> 30,
    t6 |-> 31,
    x0 |-> 0, x1 |-> 1, x2 |-> 2, x3 |-> 3, x4 |-> 4, x5 |-> 5, x6 |-> 6,
    x7 |-> 7, x8 |-> 8, x9 |-> 9, x10 |-> 10, x11 |-> 11, x12 |-> 12,
    x13 |-> 13, x14 |-> 14, x15 |-> 15, x16 |-> 16, x17 |-> 17,
    x18 |-> 18, x19 |-> 19, x20 |-> 20, x21 |-> 21, x22 |-> 22,
    x23 |-> 23, x24 |-> 24, x25 |-> 25, x26 |-> 26, x27 |-> 27,
    x28 |-> 28, x29 |-> 29, x30 |-> 30, x31 |-> 31 ]

(***************************************************************************)
(* Python integers.  Python integers are unbounded, and an instruction     *)
(* word needs 32 bits or more, which is beyond the integers of the model   *)
(* checker; a value that can be that large is kept as the pair [hi, lo]    *)
(* with value = hi * 2^16 + lo and 0 <= lo < 2^16 (hi carries the sign:    *)
(* two's complement, as Python's bit operators see the value).  Operand    *)
(* values (registers, immediates, addresses) are plain integers.           *)
(***************************************************************************)
RECURSIVE Pow2(_)
Pow2(n) == IF n = 0 THEN 1 ELSE 2 * Pow2(n - 1)

Limb == Pow2(16)

\* the Python integer v
W(v) == [hi |-> v \div Limb, lo |-> v % Limb]

\* a >> n on an operand value (arithmetic shift: floor division)
Shr(a, n) == a \div Pow2(n)

\* a & m that loses the bits of a negative operand
And_unsigned(a, m) == IF a < 0 THEN 0 ELSE a % (m + 1)

\* a & m on an operand value, for a mask m = 2^k - 1
And(a, m) == a % (m + 1)

\* a | b on plain integers
RECURSIVE Or1(_, _)
Or1(a, b) ==
  IF a = 0 THEN b
  ELSE IF b = 0 THEN a
  ELSE IF a = -1 \/ b = -1 THEN -1
  ELSE 2 * Or1(a \div 2, b \div 2)
       + (IF a % 2 = 1 \/ b % 2 = 1 THEN 1 ELSE 0)

\* a | b
Or(a, b) == [hi |-> Or1(a.hi, b.hi), lo |-> Or1(a.lo, b.lo)]

\* a << n cut to the low 16 bits
Shl_low(a, n) == [hi |-> 0, lo |-> (a.lo * Pow2(n % 16)) % Limb]

\* a << n
Shl(a, n) ==
  IF n >= 16
  THEN [hi |-> (a.hi * Limb + a.lo) * Pow2(n - 16), lo |-> 0]
  ELSE LET t == a.lo * Pow2(n)
       IN  [hi |-> a.hi * Pow2(n) + (t \div Limb), lo |-> t % Limb]

(***************************************************************************)
(* Lexical level.  Tokens are strings; the text-to-value conversions of    *)
(* Python (int(), re.match) are given by their graphs on the tokens that   *)
(* occur in the modelled source texts.                                     *)
(***************************************************************************)

\* int(tok, base) for every well-formed numeric token of the model; a token
\* outside the table makes int() raise ValueError.  base is the base that
\* decode_immediate selects from the token's prefix.
IntLiterals ==
  ("0" :> [base |-> 10, value |-> 0]) @@
  ("4" :> [base |-> 10, value |-> 4]) @@
  ("5" :> [base |-> 10, value |-> 5]) @@
  ("31" :> [base |-> 10, value |-> 31]) @@
  ("32" :> [base |-> 10, value |-> 32]) @@
  ("2047" :> [base |-> 10, value |-> 2047]) @@
  ("2048" :> [base |-> 10, value |-> 2048]) @@
  ("4096" :> [base |-> 10, value |-> 4096]) @@
  ("5000" :> [base |-> 10, value |-> 5000]) @@
  ("-1" :> [base |-> 10, value |-> -1]) @@
  ("-2048" :> [base |-> 10, value |-> -2048]) @@
  ("-2049" :> [base |-> 10, value |-> -2049]) @@
  ("1048575" :> [base |-> 10, value |-> 1048575]) @@
  ("1048576" :> [base |-> 10, value |-> 1048576]) @@
  ("0x7ff" :> [base |-> 16, value |-> 2047]) @@
  ("0x100000" :> [base |-> 16, value |-> 1048576]) @@
  ("0b101" :> [base |-> 2, value |-> 5])

\* re.match('(-?\d+)\(([a-zA-Z0-9]+)\)', operand): the two groups, for the
\* operand tokens of the model that match.
OffsetForms ==
  ("0(sp)" :> <<"0", "sp">>) @@
  ("4(sp)" :> <<"4", "sp">>) @@
  ("-1(s0)" :> <<"-1", "s0">>) @@
  ("2047(sp)" :> <<"2047", "sp">>) @@
  ("2048(sp)" :> <<"2048", "sp">>) @@
  ("4096(sp)" :> <<"4096", "sp">>) @@
  ("-2049(sp)" :> <<"-2049", "sp">>) @@
  ("4(q9)" :> <<"4", "q9">>)

\* Head tokens of the model that do not begin with a lower-case letter, so
\* that re.match(r'\s*([a-z]+)\s*(.*)$', line) yields None.
NonLowerHeads == {".text", "ADD", "4"}

\* A Python None argument.
None == "None"

(***************************************************************************)
(* State                                                                   *)
(***************************************************************************)
VARIABLES
  warning_flags,        \* names of the flags that are set (true) in the dict
  labels,               \* label dict, in insertion order: <<[name, addr]>>
  referenced_labels,    \* list of label names
  unused_labels,        \* set, emptied by reset_assembler, never filled
  memory,               \* list of integers [hi, lo] and ResultsObject
  pc,
  line_nums,
  current_line_index,
  alerts,               \* AssemblerResults.alerts
  success,              \* AssemblerResults.success
  phase,                \* position inside assemble(): idle / pre / enc
  lines,                \* input.readlines() of the call in progress
  pos,                  \* number of input lines consumed by preprocessor()
  line_num,             \* local line_num of preprocessor()
  clean_lines,          \* local clean_lines / cleaned_lines
  index,                \* local index of assemble()
  output,               \* integers whose line was written by this call
  outcome,              \* how the last call ended: none/returned/<exception>
  runs                  \* assemble() calls made on the instance

vars == << warning_flags, labels, referenced_labels, unused_labels, memory,
           pc, line_nums, current_line_index, alerts, success, phase, lines,
           pos, line_num, clean_lines, index, output, outcome, runs >>

\* A Python list that ends in a run of equal elements (memory after the
\* padding loop, and the lines written from it) is kept as its leading
\* items followed by rep copies of val.
EmptyList == [items |-> <<>>, rep |-> 0, val |-> W(0)]

ListLen(l) == Len(l.items) + l.rep

\* l[i - 1], for 1 <= i <= ListLen(l)
ListGet(l, i) == IF i <= Len(l.items) THEN l.items[i] ELSE l.val

\* l.append(x)
ListAppend(l, x) ==
  IF l.rep = 0 THEN [l EXCEPT !.items = Append(@, x)]
  ELSE [items |-> l.items \o [i \in 1..l.rep |-> l.val] \o <<x>>,
        rep |-> 0, val |-> W(0)]

\* n times l.append(x)
ListExtend(l, x, n) ==
  IF n <= 0 THEN l
  ELSE IF l.rep = 0 THEN [items |-> l.items, rep |-> n, val |-> x]
  ELSE [items |-> l.items \o [i \in 1..l.rep |-> l.val], rep |-> n,
        val |-> x]

\* l[:n], for 0 <= n <= ListLen(l)
ListPrefix(l, n) ==
  IF n <= Len(l.items)
  THEN [items |-> SubSeq(l.items, 1, n), rep |-> 0, val |-> W(0)]
  ELSE [items |-> l.items, rep |-> n - Len(l.items), val |-> l.val]

\* The AssemblerResults object itself, as an element of memory.
ResultsObject == [obj |-> "AssemblerResults"]

\* isinstance(m, int), for an element of memory
IsInt(m) == "hi" \in DOMAIN m

\* Alert.__init__: type and message are stored as 1-tuples (trailing commas).
Alert(type, message, ln, warning_type) ==
  [type |-> <<type>>, message |-> <<message>>, line_num |-> ln,
   warning_type |-> warning_type]

\* dict helpers for labels
LabelNames(lb) == {lb[i].name : i \in DOMAIN lb}

LabelAddr(lb, n) == lb[CHOOSE i \in DOMAIN lb : lb[i].name = n].addr

\* labels[label] bound to the instruction index in place of the byte address
SetLabel_index(lb, n, a) ==
  IF n \in LabelNames(lb)
  THEN [i \in DOMAIN lb |->
          IF lb[i].name = n THEN [name |-> n, addr |-> a \div 4] ELSE lb[i]]
  ELSE Append(lb, [name |-> n, addr |-> a \div 4])

\* self.labels[label] = self.pc
SetLabel(lb, n, a) ==
  IF n \in LabelNames(lb)
  THEN [i \in DOMAIN lb |->
          IF lb[i].name = n THEN [name |-> n, addr |-> a] ELSE lb[i]]
  ELSE Append(lb, [name |-> n, addr |-> a])

get_type(mnemonic) ==
  IF mnemonic \in DOMAIN opcodes THEN opcodes[mnemonic].type ELSE None

\* should_warn without the suppress_all test
should_warn_unsuppressed(warning_type) ==
  IF warning_type = "unused_label"
  THEN "no_unused_label" \notin warning_flags
  ELSE IF warning_type = "immediate_range"
       THEN "no_immediate_range" \notin warning_flags
  ELSE TRUE

should_warn(warning_type) ==
  IF "suppress_all" \in warning_flags THEN FALSE
  ELSE IF warning_type = "unused_label"
       THEN "no_unused_label" \notin warning_flags
  ELSE IF warning_type = "immediate_range"
       THEN "no_immediate_range" \notin warning_flags
  ELSE TRUE

\* record_alert: result is [exc, alerts]; exc = "" when it returns normally.
\* cli is self.current_line_index at the time of the call.
record_alert(al, cli, alert_type, message, warning_type) ==
  IF /\ alert_type = "warning"
     /\ \/ "suppress_all" \in warning_flags
        \/ warning_type = "unused_label" /\ "no_unused_label" \in warning_flags
        \/ warning_type = "immediate_range"
             /\ "no_immediate_range" \in warning_flags
  THEN [exc |-> "", alerts |-> al]
  ELSE IF cli >= Len(line_nums)
       THEN [exc |-> "IndexError", alerts |-> al]
  ELSE [exc |-> "",
        alerts |-> Append(al, Alert(alert_type, message, line_nums[cli + 1],
                                    warning_type))]

(***************************************************************************)
(* Pass 2 helpers.  Every operator below returns a record with field exc   *)
(* ("" for a normal return, otherwise the name of the raised exception)    *)
(* and the alert list / referenced_labels list as left by the call.        *)
(***************************************************************************)

\* parse_instruction: [exc, opcode, operands]
parse_instruction(line) ==
  IF line.head \in NonLowerHeads
  THEN [exc |-> "AttributeError", opcode |-> "", operands |-> <<>>]
  ELSE [exc |-> "", opcode |-> line.head, operands |-> line.ops]

\* parse_offset: the match object, or None
parse_offset(operand) ==
  IF operand \in DOMAIN OffsetForms THEN OffsetForms[operand] ELSE <<>>

\* validate_registers on the non-None arguments, in the order rd, rs1, rs2
validate_registers(al, cli, strs) ==
  IF \A i \in DOMAIN strs : strs[i] \in DOMAIN registers
  THEN [exc |-> "", alerts |-> al,
        regs |-> [i \in DOMAIN strs |-> registers[strs[i]]]]
  ELSE LET ra == record_alert(al, cli, "error", "invalid_register", None)
       IN  [exc |-> IF ra.exc = "" THEN "ValueError" ELSE ra.exc,
            alerts |-> ra.alerts, regs |-> <<>>]

\* The range / alignment block of decode_immediate (lines 284-302)
check_immediate(type, imm, al, rf, cli) ==
  LET warn(msg) ==
        LET ra == record_alert(al, cli, "warning", msg, "immediate_range")
        IN  [exc |-> ra.exc, val |-> imm, alerts |-> ra.alerts, refs |-> rf]
      pass == [exc |-> "", val |-> imm, alerts |-> al, refs |-> rf]
  IN
  IF ~should_warn("immediate_range") THEN pass
  ELSE IF type = "I" \/ (type = "S" /\ ~(-2048 <= imm /\ imm < 2048))
       THEN warn("range_12")
  ELSE IF type = "B" /\ ~(-4096 <= imm /\ imm < 4096)
       THEN warn("range_13")
  ELSE IF type = "J" /\ ~(-1048576 <= imm /\ imm < 1048574)
       THEN warn("range_21")
  ELSE IF type = "J" /\ ~(imm % 2 = 0)
       THEN LET ra == record_alert(al, cli, "error", "misaligned", None)
            IN  [exc |-> IF ra.exc = "" THEN "ValueError" ELSE ra.exc,
                 val |-> imm, alerts |-> ra.alerts, refs |-> rf]
  ELSE IF type = "U" /\ ~(0 <= imm /\ imm < Pow2(20))
       THEN warn("range_u")
  ELSE pass

\* decode_immediate(opcode, imm_str, label, current_pc)
decode_immediate(opcode, imm_str, label, current_pc, al, rf, cli) ==
  LET type == get_type(opcode)
      fail(ra, e) == [exc |-> IF ra.exc = "" THEN e ELSE ra.exc, val |-> W(0),
                      alerts |-> ra.alerts, refs |-> rf]
  IN
  IF type = "B" \/ type = "J"
  THEN IF label = None   \* (current_pc is an integer at every call site)
       THEN fail(record_alert(al, cli, "internal", "no_label_or_pc", None),
                 "ValueError")
       ELSE IF label \notin LabelNames(labels)
       THEN fail(record_alert(al, cli, "error", "undefined_label", None),
                 "ValueError")
       ELSE LET target_addr == LabelAddr(labels, label)
                imm == target_addr - current_pc
                rf2 == IF \E i \in DOMAIN rf : rf[i] = label
                       THEN rf ELSE Append(rf, label)
            IN  check_immediate(type, imm, al, rf2, cli)
  ELSE IF imm_str = None
       THEN fail(record_alert(al, cli, "internal", "no_imm_str", None),
                 "ValueError")
       ELSE \* int(imm_str, 16 | 2 | 10), the base chosen by the prefix
            IF imm_str \notin DOMAIN IntLiterals
            THEN fail(record_alert(al, cli, "error", "invalid_immediate",
                                   None), "ValueError")
            ELSE check_immediate(type, IntLiterals[imm_str].value,
                                 al, rf, cli)

\* Result of an encoder that raised e after the alert recording ra
Raised(ra, e, rf) ==
  [exc |-> IF ra.exc = "" THEN e ELSE ra.exc, val |-> W(0),
   alerts |-> ra.alerts, refs |-> rf]

Returned(word, al, rf) == [exc |-> "", val |-> word, alerts |-> al, refs |-> rf]

\* Statement sequencing: the value v of one statement, then the rest K of
\* the method body with that value bound.
Then(v, K(_)) == K(v)

encode_r_type(opcode, operands, al, rf, cli) ==
  IF Len(operands) < 3
  THEN [exc |-> "IndexError", val |-> W(0), alerts |-> al, refs |-> rf]
  ELSE
  Then(validate_registers(al, cli, <<operands[1], operands[2], operands[3]>>),
       LAMBDA vr :
  IF vr.exc # "" THEN Raised(vr, vr.exc, rf)
  ELSE LET rd == vr.regs[1]
           rs1 == vr.regs[2]
           rs2 == vr.regs[3]
           f7 == func7[opcode]
           f3 == func3[opcode]
           op == opcodes[opcode].opcode
       IN  Returned(Or(Or(Or(Or(Or(Shl(W(f7), 25), Shl(W(rs2), 20)),
                       Shl(W(rs1), 15)), Shl(W(f3), 12)),
                       Shl(W(rd), 7)), W(op)),
                    vr.alerts, rf))

\* The operand-shape block of encode_i_type (lines 353-398).  An operand
\* count or format error records an alert and raises ValueError, which the
\* inner except swallows; bound = FALSE then says that rd_str / rs1_str /
\* imm_str were never assigned.
i_type_operands(opcode, operands, al, cli) ==
  LET unbound(ra) == [bound |-> FALSE, alerts |-> ra.alerts,
                      rd_str |-> "", rs1_str |-> "", imm_str |-> ""]
      bind(rd, rs1, imm) == [bound |-> TRUE, alerts |-> al,
                             rd_str |-> rd, rs1_str |-> rs1, imm_str |-> imm]
  IN
  IF opcode = "jalr"
  THEN IF Len(operands) = 3
       THEN bind(operands[1], operands[2], operands[3])
       ELSE IF Len(operands) = 2
       THEN bind("ra", operands[1], operands[2])
       ELSE unbound(record_alert(al, cli, "error", "operand_count", None))
  ELSE IF opcodes[opcode].subtype = "load"
  THEN IF Len(operands) # 2
       THEN unbound(record_alert(al, cli, "error", "operand_count", None))
       ELSE LET match == parse_offset(operands[2])
            IN  IF match = <<>>
                THEN unbound(record_alert(al, cli, "error", "bad_format",
                                          None))
                ELSE bind(operands[1], match[2], match[1])
  ELSE IF Len(operands) # 3
       THEN unbound(record_alert(al, cli, "error", "operand_count", None))
       ELSE bind(operands[1], operands[2], operands[3])

encode_i_type(opcode, operands, al, rf, cli) ==
  Then(i_type_operands(opcode, operands, al, cli), LAMBDA o :
  IF ~o.bound
  THEN [exc |-> "UnboundLocalError", val |-> W(0), alerts |-> o.alerts,
        refs |-> rf]
  ELSE
  Then(validate_registers(o.alerts, cli, <<o.rd_str, o.rs1_str>>),
       LAMBDA vr :
  IF vr.exc # "" THEN Raised(vr, vr.exc, rf)
  ELSE
  Then(decode_immediate(opcode, o.imm_str, None, 0, vr.alerts, rf, cli),
       LAMBDA d :
  IF d.exc # "" THEN d
  ELSE IF opcodes[opcode].subtype = "shift" /\ ~(0 <= d.val /\ d.val < 32)
  THEN \* record_alert("warning") lacks the message argument: TypeError
       [exc |-> "TypeError", val |-> W(0), alerts |-> d.alerts, refs |-> d.refs]
  ELSE
  LET rd == vr.regs[1]
      rs1 == vr.regs[2]
      imm == IF opcodes[opcode].subtype = "shift"
             THEN Or(Shl(W(func7[opcode]), 5), W(And(d.val, 31)))
             ELSE W(And(d.val, 4095))
  IN  Returned(Or(Or(Or(Or(Shl(imm, 20), Shl(W(rs1), 15)),
                  Shl(W(func3[opcode]), 12)), Shl(W(rd), 7)),
                  W(opcodes[opcode].opcode)),
               d.alerts, d.refs))))

encode_s_type(opcode, operands, al, rf, cli) ==
  IF Len(operands) # 2
  THEN Raised(record_alert(al, cli, "error", "operand_count", None),
              "ValueError", rf)
  ELSE
  Then(parse_offset(operands[2]), LAMBDA match :
  IF match = <<>>
  THEN Raised(record_alert(al, cli, "error", "bad_format", None),
              "ValueError", rf)
  ELSE
  LET rs2_str == operands[1]
      imm_str == match[1]
      rs1_str == match[2]
  IN
  Then(validate_registers(al, cli, <<rs1_str, rs2_str>>), LAMBDA vr :
  IF vr.exc # "" THEN Raised(vr, vr.exc, rf)
  ELSE
  Then(decode_immediate(opcode, imm_str, None, 0, vr.alerts, rf, cli),
       LAMBDA d :
  IF d.exc # "" THEN d
  ELSE
  LET rs1 == vr.regs[1]
      rs2 == vr.regs[2]
      imm_11_5 == And(Shr(d.val, 5), 127)
      imm_4_0 == And(d.val, 31)
  IN  Returned(Or(Or(Or(Or(Or(Shl(W(imm_11_5), 25), Shl(W(rs2), 20)),
                  Shl(W(rs1), 15)), Shl(W(func3[opcode]), 12)),
                  Shl(W(imm_4_0), 7)), W(opcodes[opcode].opcode)),
               d.alerts, d.refs))))

encode_b_type(opcode, operands, current_pc, al, rf, cli) ==
  IF Len(operands) # 3
  THEN Raised(record_alert(al, cli, "error", "operand_count", None),
              "ValueError", rf)
  ELSE
  LET rs1_str == operands[1]
      rs2_str == operands[2]
      label == operands[3]
  IN
  Then(validate_registers(al, cli, <<rs1_str, rs2_str>>), LAMBDA vr :
  IF vr.exc # "" THEN Raised(vr, vr.exc, rf)
  ELSE
  Then(decode_immediate(opcode, None, label, current_pc, vr.alerts, rf, cli),
       LAMBDA d :
  IF d.exc # "" THEN d
  ELSE
  LET rs1 == vr.regs[1]
      rs2 == vr.regs[2]
      imm == d.val
      imm_12 == And(Shr(imm, 12), 1)
      imm_11 == And(Shr(imm, 11), 1)
      imm_10_5 == And(Shr(imm, 5), 63)
      imm_4_1 == And(Shr(imm, 1), 15)
  IN  Returned(Or(Or(Or(Or(Or(Or(Or(Shl(W(imm_12), 31),
                  Shl(W(imm_10_5), 25)), Shl(W(rs2), 20)), Shl(W(rs1), 15)),
                  Shl(W(func3[opcode]), 12)), Shl(W(imm_4_1), 8)),
                  Shl(W(imm_11), 7)), W(opcodes[opcode].opcode)),
               d.alerts, d.refs)))

encode_j_type(opcode, operands, current_pc, al, rf, cli) ==
  IF Len(operands) # 2 /\ Len(operands) # 1
  THEN Raised(record_alert(al, cli, "error", "operand_count", None),
              "ValueError", rf)
  ELSE
  LET rd_str == IF Len(operands) = 2 THEN operands[1] ELSE "ra"
      label == IF Len(operands) = 2 THEN operands[2] ELSE operands[1]
  IN
  Then(validate_registers(al, cli, <<rd_str>>), LAMBDA vr :
  IF vr.exc # "" THEN Raised(vr, vr.exc, rf)
  ELSE
  Then(decode_immediate(opcode, None, label, current_pc, vr.alerts, rf, cli),
       LAMBDA d :
  IF d.exc # "" THEN d
  ELSE
  LET rd == vr.regs[1]
      imm == d.val
      imm_20 == And(Shr(imm, 20), 1)
      imm_10_1 == And(Shr(imm, 1), 1023)
      imm_11 == And(Shr(imm, 11), 1)
      imm_19_12 == And(Shr(imm, 12), 127)
  IN  Returned(Or(Or(Or(Or(Or(Shl(W(imm_20), 31), Shl(W(imm_10_1), 21)),
                  Shl(W(imm_11), 20)), Shl(W(imm_19_12), 12)),
                  Shl(W(rd), 7)), W(opcodes[opcode].opcode)),
               d.alerts, d.refs)))

encode_u_type(opcode, operands, al, rf, cli) ==
  IF Len(operands) # 2
  THEN Raised(record_alert(al, cli, "error", "operand_count", None),
              "ValueError", rf)
  ELSE
  LET rd_str == operands[1]
      imm_str == operands[2]
  IN
  Then(validate_registers(al, cli, <<rd_str>>), LAMBDA vr :
  IF vr.exc # "" THEN Raised(vr, vr.exc, rf)
  ELSE
  Then(decode_immediate(opcode, imm_str, None, 0, vr.alerts, rf, cli),
       LAMBDA d :
  IF d.exc # "" THEN d
  ELSE Returned(Or(Or(Shl(W(d.val), 12), Shl(W(vr.regs[1]), 7)),
                   W(opcodes[opcode].opcode)),
                d.alerts, d.refs)))

\* The encoder selected by the match statement of assemble_instruction
encode(type, opcode, operands, current_pc, al, rf, cli) ==
  IF type = "R" THEN encode_r_type(opcode, operands, al, rf, cli)
  ELSE IF type = "I" THEN encode_i_type(opcode, operands, al, rf, cli)
  ELSE IF type = "S" THEN encode_s_type(opcode, operands, al, rf, cli)
  ELSE IF type = "B"
       THEN encode_b_type(opcode, operands, current_pc, al, rf, cli)
  ELSE IF type = "J"
       THEN encode_j_type(opcode, operands, current_pc, al, rf, cli)
  ELSE IF type = "U" THEN encode_u_type(opcode, operands, al, rf, cli)
  ELSE Raised(record_alert(al, cli, "error", "unsupported", None),
              "ValueError", rf)

\* assemble_instruction(line, current_pc): [exc, val, alerts, refs] where
\* val is an element of memory.  Only the AttributeError of
\* parse_instruction leaves the method; every exception of the encoders is
\* caught and self.AssemblerResults is returned as the value.
assemble_instruction(line, current_pc, al, rf, cli) ==
  Then(parse_instruction(line), LAMBDA p :
  IF p.exc # ""
  THEN [exc |-> p.exc, val |-> ResultsObject, alerts |-> al, refs |-> rf]
  ELSE
  Then(encode(get_type(p.opcode), p.opcode, p.operands, current_pc, al, rf,
              cli),
       LAMBDA e :
  [exc |-> "",
   val |-> IF e.exc = "" THEN e.val ELSE ResultsObject,
   alerts |-> e.alerts, refs |-> e.refs]))

(***************************************************************************)
(* Output formatting: f"{instr:08x}"                                       *)
(***************************************************************************)
HexDigit == << "0", "1", "2", "3", "4", "5", "6", "7",
               "8", "9", "a", "b", "c", "d", "e", "f" >>

\* hexadecimal digits of a plain integer n >= 0
RECURSIVE Hex1(_)
Hex1(n) == IF n < 16 THEN HexDigit[n + 1]
           ELSE Hex1(n \div 16) \o HexDigit[(n % 16) + 1]

RECURSIVE ZeroPad(_, _)
ZeroPad(s, width) == IF Len(s) >= width THEN s ELSE ZeroPad("0" \o s, width)

\* hexadecimal digits of the integer w >= 0
Hex(w) == IF w.hi = 0 THEN Hex1(w.lo)
          ELSE Hex1(w.hi) \o ZeroPad(Hex1(w.lo), 4)

\* -w
Neg(w) == IF w.lo = 0 THEN [hi |-> -w.hi, lo |-> 0]
          ELSE [hi |-> -w.hi - 1, lo |-> Limb - w.lo]

\* sign-aware zero padding to a minimum width of 8
Format08x(w) ==
  IF w.hi >= 0 THEN ZeroPad(Hex(w), 8) ELSE "-" \o ZeroPad(Hex(Neg(w)), 7)

(***************************************************************************)
(* Bounds and the source texts the environment supplies                    *)
(***************************************************************************)
MaxLines == 3       \* lines of a short source text (Spec)
MaxExcess == 1      \* lines by which a long source text exceeds the capacity
MaxOpLines == 2     \* lines of a source text in SpecOps
MaxRuns == 2        \* assemble() calls on one instance (SpecReuse)
ReuseLines == 2     \* lines of a source text in SpecReuse
MaxJumpLines == 3   \* lines of a source text in SpecJump

Blank == [label |-> "", head |-> "", ops |-> <<>>]

LabelLine(n) == [label |-> n, head |-> "", ops |-> <<>>]

Instr(h, o) == [label |-> "", head |-> h, ops |-> o]

Labelled(n, h, o) == [label |-> n, head |-> h, ops |-> o]

\* Lines of the short source texts of Spec: the line shapes of the
\* preprocessor, and instructions with and without a label operand
LineAlphabet ==
  { Blank,
    LabelLine("a"),
    LabelLine("b"),
    Labelled("a", "add", <<"a0", "a0", "a1">>),
    Instr("add", <<"a0", "a0", "a1">>),
    Instr("addi", <<"t0", "t0", "5000">>),
    Instr("beq", <<"a0", "zero", "a">>),
    Instr("nop", <<>>),                         \* unsupported mnemonic
    Instr(".text", <<>>) }                      \* no mnemonic

ShortPrograms == UNION { [1..n -> LineAlphabet] : n \in 0..MaxLines }

\* n copies of one line
Repeat(line, n) == [i \in 1..n |-> line]

\* A branch at address 0 whose target label is n + 1 non-blank lines away
BranchOver(n) ==
  <<Instr("beq", <<"a0", "zero", "a">>)>> \o Repeat(LabelLine("b"), n)
    \o <<LabelLine("a")>>

LongPrograms ==
  { Repeat(Instr("add", <<"a0", "a0", "a1">>), n) :
      n \in (MAX_INSTRUCTIONS - 1)..(MAX_INSTRUCTIONS + MaxExcess) }
  \cup
  { BranchOver(n) :
      n \in (MAX_INSTRUCTIONS - 2)..(MAX_INSTRUCTIONS - 1 + MaxExcess) }

Programs == ShortPrograms \cup LongPrograms

\* Lines of the source texts of SpecOps: one instruction of every format,
\* with operands inside and outside the ranges, and malformed ones
OpAlphabet ==
  { LabelLine("a"),
    Instr("add", <<"a0", "a0", "a1">>),
    Instr("addi", <<"a0", "zero", "5">>),
    Instr("addi", <<"t0", "t0", "5000">>),
    Instr("lw", <<"a0", "4(sp)">>),
    Instr("sw", <<"a0", "4(sp)">>),
    Instr("sw", <<"a0", "4096(sp)">>),
    Instr("sw", <<"a0", "-2049(sp)">>),
    Instr("beq", <<"a0", "zero", "a">>),
    Instr("jal", <<"a">>),
    Instr("lui", <<"a0", "5">>),
    Instr("lui", <<"a0", "0x100000">>),         \* immediate of 21 bits
    Instr("slli", <<"a0", "a0", "5">>),
    Instr("slli", <<"a0", "a0", "32">>),        \* shift amount out of range
    Instr("add", <<"a0", "a0", "q9">>),         \* invalid register
    Instr("addi", <<"a0", "zero", "5x">>),      \* malformed immediate
    Instr("add", <<"a0", "a0">>),               \* operand missing
    Instr("addi", <<"a0", "zero">>) }           \* operand missing

OpPrograms == UNION { [1..n -> OpAlphabet] : n \in 1..MaxOpLines }

ReuseAlphabet ==
  { LabelLine("a"),
    Instr("add", <<"a0", "a0", "a1">>),
    Instr("addi", <<"t0", "t0", "5000">>),
    Instr("beq", <<"a0", "zero", "a">>),
    Instr("nop", <<>>),
    Instr(".text", <<>>) }

ReusePrograms == UNION { [1..n -> ReuseAlphabet] : n \in 0..ReuseLines }

\* Register names and immediate tokens of the one-line source texts of
\* SpecEnc
EncRegs == {"zero", "a0", "x15", "t6"}

EncImms == {"0", "5", "31", "2047", "-1", "-2048", "0x7ff", "0b101"}

EncShamts == {"0", "5", "31"}

RMnemonics == {m \in DOMAIN opcodes : opcodes[m].type = "R"}

IArithMnemonics ==
  {m \in DOMAIN opcodes :
     opcodes[m].type = "I" /\ opcodes[m].subtype = "" /\ m # "jalr"}

ShiftMnemonics == {m \in DOMAIN opcodes : opcodes[m].subtype = "shift"}

\* R-type and I-type arithmetic / shift instructions with valid registers
\* and in-range immediates
EncLines ==
  {Instr(t[1], <<t[2], t[3], t[4]>>) :
     t \in (RMnemonics \X EncRegs \X EncRegs \X EncRegs)
           \cup (IArithMnemonics \X EncRegs \X EncRegs \X EncImms)
           \cup (ShiftMnemonics \X EncRegs \X EncRegs \X EncShamts)}

EncPrograms == {<<l>> : l \in EncLines}

\* Lines of the source texts of SpecJump: jumps and branches forward and
\* backward over label lines and instructions, jumps with and without the
\* rd operand
JumpAlphabet ==
  { LabelLine("a"),
    LabelLine("b"),
    Instr("add", <<"a0", "a0", "a1">>),
    Instr("jal", <<"a">>),
    Instr("jal", <<"t0", "a">>),
    Instr("bgeu", <<"t6", "a1", "a">>) }

JumpPrograms == UNION { [1..n -> JumpAlphabet] : n \in 1..MaxJumpLines }

FlagSets ==
  { {}, {"suppress_all"}, {"no_immediate_range"}, {"no_unused_label"},
    {"error_on_warning"} }

(***************************************************************************)
(* Construction                                                            *)
(***************************************************************************)
\* RV32IAssembler.__init__ with one of the flag dicts; no call in progress
Init ==
  /\ warning_flags \in FlagSets
  /\ labels = <<>>
  /\ referenced_labels = <<>>
  /\ unused_labels = {}
  /\ memory = EmptyList
  /\ pc = 0
  /\ line_nums = <<>>
  /\ current_line_index = 1
  /\ alerts = <<>>
  /\ success = FALSE
  /\ phase = "idle"
  /\ lines = <<>>
  /\ pos = 0
  /\ line_num = 1
  /\ clean_lines = <<>>
  /\ index = 0
  /\ output = EmptyList
  /\ outcome = "none"
  /\ runs = 0

(***************************************************************************)
(* assemble(input, output), one action per step                            *)
(***************************************************************************)
\* Entry of assemble(): reset_assembler(), input.readlines() and the
\* prologue of preprocessor().  AssemblerResults, referenced_labels and
\* current_line_index are not touched by reset_assembler.
Begin(prog) ==
  /\ phase = "idle"
  /\ unused_labels' = {}
  /\ labels' = <<>>
  /\ memory' = EmptyList
  /\ line_nums' = <<>>
  /\ pc' = 0
  /\ lines' = prog
  /\ clean_lines' = <<>>
  /\ line_num' = 1
  /\ pos' = 0
  /\ index' = 0
  /\ output' = EmptyList
  /\ outcome' = "none"
  /\ phase' = "pre"
  /\ runs' = runs + 1
  /\ UNCHANGED << warning_flags, referenced_labels, current_line_index,
                  alerts, success >>

\* the first call on a fresh instance
Call == runs = 0 /\ \E prog \in Programs : Begin(prog)

\* the first call on a fresh instance, SpecOps
CallOps == runs = 0 /\ \E prog \in OpPrograms : Begin(prog)

\* a call on a fresh or on a used instance
CallReuse == runs < MaxRuns /\ \E prog \in ReusePrograms : Begin(prog)

\* the first call on a fresh instance, SpecJump
CallJump == runs = 0 /\ \E prog \in JumpPrograms : Begin(prog)

\* the first call on a fresh instance, SpecEnc
CallEnc == runs = 0 /\ \E prog \in EncPrograms : Begin(prog)

\* "label_match not in self.labels": the operand is the re.Match object,
\* which is never equal to a key of the dict.
MatchNotInLabels(label, lb) == TRUE

\* One iteration of the for loop of preprocessor()
PreprocessLine ==
  /\ phase = "pre"
  /\ pos < Len(lines)
  /\ LET line == lines[pos + 1]
     IN
     /\ pos' = pos + 1
     /\ IF line.label = "" /\ line.head = ""
        THEN \* blank after comment stripping: continue
             UNCHANGED << labels, clean_lines, line_nums, pc, line_num >>
        ELSE /\ IF line.label # ""
                THEN /\ labels' = IF MatchNotInLabels(line.label, labels)
                                  THEN SetLabel(labels, line.label, pc)
                                  ELSE labels
                     /\ UNCHANGED << clean_lines, line_nums >>
                ELSE /\ clean_lines' = Append(clean_lines, line)
                     /\ line_nums' = Append(line_nums, line_num)
                     /\ UNCHANGED labels
             /\ pc' = pc + 4
             /\ line_num' = line_num + 1
  /\ UNCHANGED << warning_flags, referenced_labels, unused_labels, memory,
                  current_line_index, alerts, success, phase, lines, index,
                  output, outcome, runs >>

\* The second pass entered while the loop of preprocessor() is still running
CapacityCheck_early ==
  /\ phase = "pre"
  /\ pos <= Len(lines)
  /\ IF Len(clean_lines) > MAX_INSTRUCTIONS
     THEN /\ outcome' = "AttributeError"
          /\ phase' = "idle"
          /\ UNCHANGED << pc, index >>
     ELSE /\ pc' = 0
          /\ index' = 0
          /\ phase' = "enc"
          /\ UNCHANGED outcome
  /\ UNCHANGED << warning_flags, labels, referenced_labels, unused_labels,
                  memory, line_nums, current_line_index, alerts, success,
                  lines, pos, line_num, clean_lines, output, runs >>

\* preprocessor() has returned: the capacity check of assemble().  Building
\* the message reads self.MAX_INSTRUCIONS, an attribute that does not exist,
\* so the call ends with AttributeError before record_alert is entered.
CapacityCheck ==
  /\ phase = "pre"
  /\ pos = Len(lines)
  /\ IF Len(clean_lines) > MAX_INSTRUCTIONS
     THEN /\ outcome' = "AttributeError"
          /\ phase' = "idle"
          /\ UNCHANGED << pc, index >>
     ELSE /\ pc' = 0
          /\ index' = 0
          /\ phase' = "enc"
          /\ UNCHANGED outcome
  /\ UNCHANGED << warning_flags, labels, referenced_labels, unused_labels,
                  memory, line_nums, current_line_index, alerts, success,
                  lines, pos, line_num, clean_lines, output, runs >>

\* One iteration of the second-pass loop of assemble()
EncodeLine ==
  /\ phase = "enc"
  /\ index < Len(clean_lines)
  /\ current_line_index' = index
  /\ \E r \in {assemble_instruction(clean_lines[index + 1], pc, alerts,
                                    referenced_labels, index)} :
         IF r.exc # ""
         THEN \* except clause of assemble(): return self.AssemblerResults
              /\ outcome' = "returned"
              /\ phase' = "idle"
              /\ UNCHANGED << memory, pc, index, alerts, referenced_labels >>
         ELSE /\ memory' = ListAppend(memory, r.val)
              /\ pc' = pc + 4
              /\ index' = index + 1
              /\ alerts' = r.alerts
              /\ referenced_labels' = r.refs
              /\ UNCHANGED << outcome, phase >>
  /\ UNCHANGED << warning_flags, labels, unused_labels, line_nums, success,
                  lines, pos, line_num, clean_lines, output, runs >>

\* The padding loop appending 0 in place of the NOP
pad_zero(mem) == ListExtend(mem, W(0), MAX_INSTRUCTIONS - ListLen(mem))

\* The while loop of assemble(): fill the rest of memory with NOP
pad(mem) == ListExtend(mem, W(NOP), MAX_INSTRUCTIONS - ListLen(mem))

\* record_alert('unused_label', ...) for each label of the list, in order;
\* [exc, alerts]
RECURSIVE report_unused(_, _, _)
report_unused(names, al, cli) ==
  IF names = <<>> THEN [exc |-> "", alerts |-> al]
  ELSE LET ra == record_alert(al, cli, "unused_label",
                              "unused_label:" \o Head(names), None)
       IN  IF ra.exc # "" THEN ra
           ELSE report_unused(Tail(names), ra.alerts, cli)

\* The unused-label check of assemble(): [exc, alerts]
check_unused(al, cli) ==
  LET keys == [i \in DOMAIN labels |-> labels[i].name]
      unused == SelectSeq(keys, LAMBDA k : k \notin unused_labels)
  IN  IF should_warn("unused_label")
      THEN report_unused(unused, al, cli)
      ELSE [exc |-> "", alerts |-> al]

\* The write loop of assemble(): the integers whose line was written, in
\* order (the text of a line is Format08x of the integer), and whether the
\* loop ran to its end.  Formatting an element that is not an integer
\* raises TypeError after the lines before it have been written.
write(mem) ==
  LET bad == {i \in DOMAIN mem.items : ~IsInt(mem.items[i])}
             \cup (IF mem.rep > 0 /\ ~IsInt(mem.val)
                   THEN {Len(mem.items) + 1} ELSE {})
      n == IF bad = {} THEN ListLen(mem)
           ELSE (CHOOSE i \in bad : \A j \in bad : i <= j) - 1
  IN  [exc |-> IF bad = {} THEN "" ELSE "TypeError",
       written |-> ListPrefix(mem, n)]

\* The second-pass loop is exhausted: padding, unused-label check, write
\* loop and return of assemble()
Finish ==
  /\ phase = "enc"
  /\ index = Len(clean_lines)
  /\ LET mem == pad(memory)
         u == check_unused(alerts, current_line_index)
         w == write(mem)
     IN  /\ memory' = mem
         /\ alerts' = u.alerts
         /\ IF u.exc # ""
            THEN outcome' = u.exc /\ UNCHANGED << output, success >>
            ELSE /\ output' = w.written
                 /\ IF w.exc # ""
                    THEN outcome' = w.exc /\ UNCHANGED success
                    ELSE outcome' = "returned" /\ success' = TRUE
  /\ phase' = "idle"
  /\ UNCHANGED << warning_flags, labels, referenced_labels, unused_labels,
                  pc, line_nums, current_line_index, lines, pos, line_num,
                  clean_lines, index, runs >>

Step ==
  \/ PreprocessLine
  \/ CapacityCheck
  \/ EncodeLine
  \/ Finish

Next == Call \/ Step

Spec == Init /\ [][Next]_vars

NextOps == CallOps \/ Step

SpecOps == Init /\ [][NextOps]_vars

NextReuse == CallReuse \/ Step

SpecReuse == Init /\ [][NextReuse]_vars

NextJump == CallJump \/ Step

SpecJump == Init /\ [][NextJump]_vars

NextEnc == CallEnc \/ Step

SpecEnc == Init /\ [][NextEnc]_vars

(***************************************************************************)
(* Vocabulary of the properties                                            *)
(***************************************************************************)
\* a call of assemble() has ended (by return or by exception)
Ended == phase = "idle" /\ runs >= 1

\* the call returned through the last line of assemble()
Completed == Ended /\ outcome = "returned" /\ ListLen(output) = MAX_INSTRUCTIONS

\* the first pass of the call in progress (or ended) is over
PassOneDone == runs >= 1 /\ (phase # "pre" \/ pos = Len(lines))

\* Encoding the k-th real instruction line raises an error: either the
\* exception leaves assemble_instruction or it is caught there.
FatalLine(k) ==
  LET r == assemble_instruction(clean_lines[k], 4 * (k - 1), <<>>, <<>>,
                                k - 1)
  IN  r.exc # "" \/ ~IsInt(r.val)

FatalLines == {k \in DOMAIN clean_lines : FatalLine(k)}

FirstFatal == CHOOSE k \in FatalLines : \A j \in FatalLines : k <= j

\* C1: when some instruction line raises a fatal error during encoding,
\* assemble() stops at that line (no later line is encoded), writes no
\* line to the output and returns a result with success = false.
C1_FailFast ==
  (Ended /\ Len(clean_lines) <= MAX_INSTRUCTIONS /\ FatalLines # {})
    => /\ index = FirstFatal - 1
       /\ ListLen(memory) = FirstFatal - 1
       /\ ListLen(output) = 0
       /\ outcome = "returned"
       /\ success = FALSE

\* The alert list of a fresh instance after encoding the real instruction
\* lines k, k+1, ... of the current source text: [alerts, refs, done], done
\* saying that the loop ran to its end.
RECURSIVE fresh_encode(_, _, _)
fresh_encode(k, al, rf) ==
  IF k > Len(clean_lines) THEN [alerts |-> al, refs |-> rf, done |-> TRUE]
  ELSE LET r == assemble_instruction(clean_lines[k], 4 * (k - 1), al, rf,
                                     k - 1)
       IN  IF r.exc # "" THEN [alerts |-> al, refs |-> rf, done |-> FALSE]
           ELSE fresh_encode(k + 1, r.alerts, r.refs)

\* The alert list in the result of assemble() on a fresh instance, for the
\* source text of the call that has ended
FreshAlerts ==
  IF Len(clean_lines) > MAX_INSTRUCTIONS THEN <<>>
  ELSE LET e == fresh_encode(1, <<>>, <<>>)
       IN  IF ~e.done THEN e.alerts
           ELSE check_unused(e.alerts,
                             IF clean_lines = <<>> THEN 1
                             ELSE Len(clean_lines) - 1).alerts

\* C2: the result of every call on a used instance is the result a fresh
\* instance gives: the alert list holds the alerts of this call only, and
\* success is set only when this call wrote the image.
C2_RunIsolation ==
  Ended => /\ alerts = FreshAlerts
           /\ success = Completed

C4_CapacityError ==
  (Ended /\ Len(clean_lines) > MAX_INSTRUCTIONS)
    => /\ outcome = "returned"
       /\ success = FALSE
       /\ ListLen(output) = 0
       /\ \E i \in DOMAIN alerts :
            alerts[i].type = <<"error">> /\ alerts[i].message = <<"capacity">>

\* a source line that carries an instruction and no label definition
IsInstr(l) == l.label = "" /\ l.head # ""

\* the source lines on which label n is defined
DefLines(n) == {j \in DOMAIN lines : lines[j].label = n}

\* number of real instruction lines before source line j
RealBefore(j) == Cardinality({m \in 1..(j - 1) : IsInstr(lines[m])})

\* the label operand of a branch or jump line
LabelOperand(l) == l.ops[Len(l.ops)]

\* the k-th real instruction line is a branch or jump to a defined label
RefersToLabel(k) ==
  /\ get_type(clean_lines[k].head) \in {"B", "J"}
  /\ clean_lines[k].ops # <<>>
  /\ LabelOperand(clean_lines[k]) \in LabelNames(labels)

\* the offset decode_immediate computes for the k-th real instruction line
OffsetOf(k) ==
  LET l == clean_lines[k]
      d == decode_immediate(l.head, None, LabelOperand(l), 4 * (k - 1),
                            <<>>, <<>>, k - 1)
  IN  d.val

\* C5: a branch or jump at instruction index k to a label defined once
\* gets the offset 4 * (index of the first real instruction after the
\* definition - k); label-only and blank lines consume no address space.
\* (Stated for source texts in which no line carries both a label and an
\* instruction.)
C5_LabelResolution ==
  (PassOneDone /\ \A j \in DOMAIN lines :
                     lines[j].label # "" => lines[j].head = "")
    => \A k \in DOMAIN clean_lines :
         (RefersToLabel(k)
            /\ Cardinality(DefLines(LabelOperand(clean_lines[k]))) = 1)
           => LET j == CHOOSE d \in DefLines(LabelOperand(clean_lines[k])) :
                         TRUE
              IN  OffsetOf(k) = 4 * (RealBefore(j) - (k - 1))

\* C6: a line "label: instruction" contributes the instruction as a real
\* instruction line at its place in the order of the source, and binds the
\* label to the address of that instruction.
C6_LabelledInstruction ==
  PassOneDone =>
    \A j \in DOMAIN lines :
      (lines[j].label # "" /\ lines[j].head # "")
        => LET k == Cardinality({m \in 1..(j - 1) : lines[m].head # ""}) + 1
           IN  /\ k \in DOMAIN clean_lines
               /\ clean_lines[k].head = lines[j].head
               /\ clean_lines[k].ops = lines[j].ops
               /\ Cardinality(DefLines(lines[j].label)) = 1
                    => LabelAddr(labels, lines[j].label) = 4 * (k - 1)

\* the source lines already read that define a label defined before
Redefinitions ==
  {j \in 1..pos : /\ lines[j].label # ""
                  /\ \E m \in 1..(j - 1) : lines[m].label = lines[j].label}

\* the address the preprocessor gave label n at its first definition
FirstBinding(n) ==
  LET j == CHOOSE d \in DefLines(n) : \A e \in DefLines(n) : d <= e
  IN  4 * Cardinality({m \in 1..(j - 1) :
                         lines[m].label # "" \/ lines[m].head # ""})

\* C7: defining a label a second time is a fatal error: the binding of the
\* first definition stays, an error alert is recorded, and assemble() fails
\* without output.
C7_DuplicateLabelFatal ==
  (runs >= 1 /\ Redefinitions # {})
    => /\ \A j \in Redefinitions :
            LabelAddr(labels, lines[j].label) = FirstBinding(lines[j].label)
       /\ \E i \in DOMAIN alerts : alerts[i].type = <<"error">>
       /\ success = FALSE
       /\ ListLen(output) = 0

\* the offset cannot be encoded in a branch (13 bits) or a jump (21 bits)
OutOfReach(type, off) ==
  \/ off % 2 # 0
  \/ type = "B" /\ ~(-4096 <= off /\ off <= 4094)
  \/ type = "J" /\ ~(-1048576 <= off /\ off <= 1048574)

\* C8: a branch or jump whose offset is out of range or odd is a fatal
\* error under every flag setting: an error alert is recorded for it and
\* assemble() fails without output.
C8_BranchRangeFatal ==
  \A k \in 1..index :
    (phase \in {"enc", "idle"} /\ runs >= 1 /\ RefersToLabel(k)
       /\ OutOfReach(get_type(clean_lines[k].head), OffsetOf(k)))
      => /\ \E i \in DOMAIN alerts :
              alerts[i].type = <<"error">>
                /\ alerts[i].line_num = line_nums[k]
         /\ success = FALSE
         /\ ListLen(output) = 0

\* the immediate of an I-type or S-type line whose operands are well formed
ImmOf(l) ==
  LET last == l.ops[Len(l.ops)]
  IN  IF last \in DOMAIN OffsetForms
      THEN IntLiterals[OffsetForms[last][1]].value
      ELSE IntLiterals[last].value

\* an immediate_range warning is recorded for the k-th real instruction line
RangeAlertAt(k) ==
  \E i \in DOMAIN alerts :
    /\ alerts[i].type = <<"warning">>
    /\ alerts[i].warning_type = "immediate_range"
    /\ alerts[i].line_num = line_nums[k]

\* the 12-bit immediate field of an encoded I-type or S-type word
ImmField(type, w) ==
  IF type = "I" THEN w.hi \div 16
  ELSE 32 * (w.hi \div 512) + ((w.lo \div 128) % 32)

\* C9: without suppression flags, encoding an I-type or S-type instruction
\* records an immediate_range warning exactly when the immediate is outside
\* -2048..2047, and the word carries the immediate masked to 12 bits.
C9_ImmediateRangeWarning ==
  (warning_flags = {} /\ phase \in {"enc", "idle"} /\ runs >= 1)
    => \A k \in 1..index :
         (get_type(clean_lines[k].head) \in {"I", "S"}
            /\ IsInt(ListGet(memory, k)))
           => LET imm == ImmOf(clean_lines[k])
              IN  /\ RangeAlertAt(k) <=> ~(-2048 <= imm /\ imm <= 2047)
                  /\ ImmField(get_type(clean_lines[k].head),
                              ListGet(memory, k)) = imm % 4096

\* C10: with suppress_all no warning of any category is appended to the
\* alert list, with no_immediate_range / no_unused_label none of that
\* category; and a source text whose lines all encode still succeeds.
C10_Suppression ==
  /\ "suppress_all" \in warning_flags
       => /\ \A i \in DOMAIN alerts :
               /\ alerts[i].type \notin {<<"warning">>, <<"unused_label">>}
               /\ alerts[i].warning_type = None
          /\ (Ended /\ Len(clean_lines) <= MAX_INSTRUCTIONS
                /\ FatalLines = {})
               => Completed /\ success /\ alerts = <<>>
  /\ "no_immediate_range" \in warning_flags
       => /\ \A i \in DOMAIN alerts :
               alerts[i].warning_type # "immediate_range"
          /\ (Ended /\ Len(clean_lines) <= MAX_INSTRUCTIONS
                /\ FatalLines = {} /\ labels = <<>>)
               => Completed /\ success /\ alerts = <<>>
  /\ "no_unused_label" \in warning_flags
       => /\ \A i \in DOMAIN alerts :
               /\ alerts[i].type # <<"unused_label">>
               /\ alerts[i].warning_type # "unused_label"
          /\ (Ended /\ Len(clean_lines) <= MAX_INSTRUCTIONS
                /\ FatalLines = {})
               => Completed /\ success

\* C10 witness: under suppress_all a source text with a label nobody
\* references and an immediate out of range has been assembled
C10_Witness ==
  /\ "suppress_all" \in warning_flags
  /\ Completed
  /\ success
  /\ alerts = <<>>
  /\ labels # <<>>
  /\ \E k \in DOMAIN clean_lines :
       clean_lines[k] = [label |-> "", head |-> "addi",
                         ops |-> <<"t0", "t0", "5000">>]

\* C11: with error_on_warning set, a recorded warning is fatal: encoding
\* stops at the line that caused it, assemble() does not succeed and no
\* output is written.
C11_Escalation ==
  ("error_on_warning" \in warning_flags /\ runs >= 1)
    => \A i \in DOMAIN alerts :
         alerts[i].type = <<"warning">>
           => /\ \A k \in DOMAIN line_nums :
                   line_nums[k] = alerts[i].line_num => index < k
              /\ success = FALSE
              /\ ListLen(output) = 0

\* the labels that some encoded branch or jump names as its target
ReferencedLabels ==
  {LabelOperand(clean_lines[k]) :
     k \in {j \in DOMAIN clean_lines : RefersToLabel(j)}}

\* the warnings of category unused_label recorded for label n
UnusedWarnings(n) ==
  {i \in DOMAIN alerts : /\ alerts[i].type = <<"warning">>
                         /\ alerts[i].warning_type = "unused_label"
                         /\ alerts[i].message = <<"unused_label:" \o n>>}

\* C12: after a successful assembly with unused_label warnings enabled,
\* the alert list holds exactly one unused_label warning for each label
\* that no branch or jump references and none for a referenced label.
C12_UnusedLabelExact ==
  (Completed /\ success
     /\ warning_flags \cap {"suppress_all", "no_unused_label"} = {})
    => \A n \in LabelNames(labels) :
         Cardinality(UnusedWarnings(n)) =
           IF n \in ReferencedLabels THEN 0 ELSE 1

\* C13: the unused-label step never makes a run fail: when every real
\* instruction line encodes without a fatal error, the call ends by
\* returning with the full image written and success = true; this holds
\* for a source text that only defines labels and on a used instance too.
C13_UnusedLabelNeverFatal ==
  (Ended /\ Len(clean_lines) <= MAX_INSTRUCTIONS /\ FatalLines = {})
    => /\ outcome = "returned"
       /\ ListLen(output) = MAX_INSTRUCTIONS
       /\ success = TRUE

\* a shift instruction with valid registers and an amount outside 0..31
ShiftOutOfRange(l) ==
  /\ l.head \in {"slli", "srli", "srai"}
  /\ Len(l.ops) = 3
  /\ l.ops[1] \in DOMAIN registers /\ l.ops[2] \in DOMAIN registers
  /\ l.ops[3] \in DOMAIN IntLiterals
  /\ ~(0 <= IntLiterals[l.ops[3]].value /\ IntLiterals[l.ops[3]].value <= 31)

\* C14: a shift whose amount is outside 0..31 is a fatal error: an error
\* alert is recorded for its line, assemble() returns without success and
\* nothing is written.
C14_ShiftRangeFatal ==
  \A k \in 1..index :
    (phase \in {"enc", "idle"} /\ runs >= 1 /\ ShiftOutOfRange(clean_lines[k]))
      => /\ \E i \in DOMAIN alerts :
              alerts[i].type = <<"error">>
                /\ alerts[i].line_num = line_nums[k]
         /\ success = FALSE
         /\ ListLen(output) = 0
         /\ Ended => outcome = "returned"

\* the elements of a list, as a set
ListElems(l) ==
  {l.items[i] : i \in DOMAIN l.items} \cup (IF l.rep > 0 THEN {l.val} ELSE {})

\* an integer in 0 .. 2^32 - 1
IsWord32(w) ==
  /\ IsInt(w)
  /\ 0 <= w.hi /\ w.hi < Limb
  /\ 0 <= w.lo /\ w.lo < Limb

\* C15: every word of the image of a successful assembly is an integer in
\* 0 .. 2^32 - 1 and its output line has exactly 8 characters; a U-type
\* immediate outside 0 .. 2^20 - 1 is masked to 20 bits.
C15_Words32Bit ==
  (Completed /\ success)
    => \A w \in ListElems(memory) :
         IsWord32(w) /\ Len(Format08x(w)) = 8

\* the position, among all lines of the source text, of the k-th real
\* instruction line
OrigLine(k) ==
  CHOOSE j \in DOMAIN lines : IsInstr(lines[j]) /\ RealBefore(j) = k - 1

\* the alerts recorded while the k-th real instruction line is encoded
AlertsOfLine(k) ==
  assemble_instruction(clean_lines[k], 4 * (k - 1), <<>>, <<>>, k - 1).alerts

\* C16: every alert recorded while an instruction is encoded carries the
\* line number of that instruction in the source text, counted over all
\* lines (blank, comment-only and label-only lines included).
C16_AlertLineNumbers ==
  (phase = "enc" /\ runs >= 1
     /\ \A j \in DOMAIN lines : lines[j].label # "" => lines[j].head = "")
    => \A k \in 1..index :
         \A a \in DOMAIN AlertsOfLine(k) :
           /\ AlertsOfLine(k)[a].line_num = OrigLine(k)
           /\ \E i \in DOMAIN alerts : alerts[i] = AlertsOfLine(k)[a]

\* bits lo + width - 1 .. lo of the integer w (width <= 12)
Field(w, lo, width) ==
  IF lo >= 16
  THEN (w.hi \div Pow2(lo - 16)) % Pow2(width)
  ELSE ((w.lo \div Pow2(lo)) + (w.hi % Pow2(width)) * Pow2(16 - lo))
         % Pow2(width)

\* C17: the word of an R-type or I-type arithmetic / shift instruction
\* with valid registers and an in-range immediate, split by the R layout
\* or the I layout, gives back the table opcode, funct3, funct7, the
\* register indices and the immediate modulo 2^12 ((funct7 << 5) | shamt
\* for a shift); 'addi a0, zero, 5' is 0x00500513.
C17_RoundTrip ==
  (runs >= 1 /\ phase \in {"enc", "idle"} /\ index >= 1
     /\ clean_lines[1] \in EncLines)
    => LET l == clean_lines[1]
           w == ListGet(memory, 1)
       IN  /\ IsWord32(w)
           /\ Field(w, 0, 7) = opcodes[l.head].opcode
           /\ Field(w, 7, 5) = registers[l.ops[1]]
           /\ Field(w, 12, 3) = func3[l.head]
           /\ Field(w, 15, 5) = registers[l.ops[2]]
           /\ IF l.head \in RMnemonics
              THEN /\ Field(w, 20, 5) = registers[l.ops[3]]
                   /\ Field(w, 25, 7) = func7[l.head]
              ELSE IF l.head \in ShiftMnemonics
              THEN Field(w, 20, 12) =
                     32 * func7[l.head] + IntLiterals[l.ops[3]].value
              ELSE Field(w, 20, 12) = IntLiterals[l.ops[3]].value % 4096
           /\ l = Instr("addi", <<"a0", "zero", "5">>)
                => w = [hi |-> 80, lo |-> 1299]

\* C17 witness: 'addi a0, zero, 5' has been encoded as 0x00500513
C17_Witness ==
  /\ runs >= 1
  /\ index = 1
  /\ clean_lines = <<Instr("addi", <<"a0", "zero", "5">>)>>
  /\ ListGet(memory, 1) = [hi |-> 80, lo |-> 1299]

\* C18: for an even offset in -1048576 .. 1048575 the word of a jump has
\* bit 31 = offset bit 20, bits 30:21 = offset bits 10:1, bit 20 = offset
\* bit 11, bits 19:12 = offset bits 19:12, bits 11:7 = rd and bits 6:0 =
\* the jal opcode.
C18_JTypeLayout ==
  \A k \in 1..index :
    (runs >= 1 /\ phase \in {"enc", "idle"} /\ RefersToLabel(k)
       /\ get_type(clean_lines[k].head) = "J"
       /\ IsInt(ListGet(memory, k))
       /\ OffsetOf(k) % 2 = 0
       /\ -1048576 <= OffsetOf(k) /\ OffsetOf(k) <= 1048575)
      => LET l == clean_lines[k]
             w == ListGet(memory, k)
             off == OffsetOf(k)
         IN  /\ IsWord32(w)
             /\ Field(w, 31, 1) = Shr(off, 20) % 2
             /\ Field(w, 21, 10) = Shr(off, 1) % 1024
             /\ Field(w, 20, 1) = Shr(off, 11) % 2
             /\ Field(w, 12, 8) = Shr(off, 12) % 256
             /\ Field(w, 7, 5) = IF Len(l.ops) = 2 THEN registers[l.ops[1]]
                                 ELSE registers["ra"]
             /\ Field(w, 0, 7) = opcodes["jal"].opcode

\* C19: for an even offset in -4096 .. 4095 the word of a branch has bit
\* 31 = offset bit 12, bits 30:25 = offset bits 10:5, bits 24:20 = rs2,
\* bits 19:15 = rs1, bits 14:12 = funct3, bits 11:8 = offset bits 4:1,
\* bit 7 = offset bit 11 and bits 6:0 = the branch opcode.
C19_BTypeLayout ==
  \A k \in 1..index :
    (runs >= 1 /\ phase \in {"enc", "idle"} /\ RefersToLabel(k)
       /\ get_type(clean_lines[k].head) = "B"
       /\ Len(clean_lines[k].ops) = 3
       /\ clean_lines[k].ops[1] \in DOMAIN registers
       /\ clean_lines[k].ops[2] \in DOMAIN registers
       /\ OffsetOf(k) % 2 = 0
       /\ -4096 <= OffsetOf(k) /\ OffsetOf(k) <= 4095)
      => LET l == clean_lines[k]
             w == ListGet(memory, k)
             off == OffsetOf(k)
         IN  /\ IsWord32(w)
             /\ Field(w, 31, 1) = (off \div 4096) % 2
             /\ Field(w, 25, 6) = (off \div 32) % 64
             /\ Field(w, 20, 5) = registers[l.ops[2]]
             /\ Field(w, 15, 5) = registers[l.ops[1]]
             /\ Field(w, 12, 3) = func3[l.head]
             /\ Field(w, 8, 4) = (off \div 2) % 16
             /\ Field(w, 7, 1) = (off \div 2048) % 2
             /\ Field(w, 0, 7) = opcodes[l.head].opcode

\* C19 witness: a backward branch has been encoded (offset -4, word
\* 0xfe050ee3)
C19_Witness ==
  /\ runs >= 1
  /\ index >= 2
  /\ RefersToLabel(2)
  /\ OffsetOf(2) = -4
  /\ ListGet(memory, 2) = [hi |-> 65029, lo |-> 3811]

\* C20: within one call no instruction is encoded before the preprocessor
\* has read every line of the source text, and from the start of the
\* second pass until assemble() returns the label table is not modified.
C20_TwoPassOrdering ==
  [][ /\ index' > index
        => pos = Len(lines) /\ pos' = pos
      /\ phase = "enc"
        => /\ labels' = labels
           /\ pos = Len(lines) /\ pos' = pos ]_vars

\* C20 witness: the second pass has encoded an instruction of a source
\* text that defines a label
C20_Witness ==
  /\ runs >= 1
  /\ phase = "enc"
  /\ index >= 1
  /\ labels # <<>>
  /\ IsInt(ListGet(memory, 1))

\* the alerts of the list al that report a misaligned jump offset
MisalignedAlerts(al) ==
  {i \in DOMAIN al : al[i].message = <<"misaligned">>}

\* C21: every address bound to a label and every current_pc of the second
\* pass is a non-negative multiple of 4, so the offset decode_immediate
\* computes for a branch or jump to a defined label is a multiple of 4, and
\* the evenness test on the offset never records its error alert nor ends
\* a run.
C21_AlignedOffsets ==
  /\ \A i \in DOMAIN labels :
       labels[i].addr >= 0 /\ labels[i].addr % 4 = 0
  /\ phase = "enc" => (pc >= 0 /\ pc % 4 = 0 /\ pc = 4 * index)
  /\ (phase = "enc" /\ index < Len(clean_lines))
       => (RefersToLabel(index + 1)
             => LET l == clean_lines[index + 1]
                    d == decode_immediate(l.head, None, LabelOperand(l), pc,
                                          alerts, referenced_labels, index)
                IN  /\ d.val = LabelAddr(labels, LabelOperand(l)) - pc
                    /\ d.val % 4 = 0
                    /\ d.exc = ""
                    /\ MisalignedAlerts(d.alerts) = {})
  /\ MisalignedAlerts(alerts) = {}

\* C21 witness: with the range block enabled, a forward jal at address 0 to
\* a label bound to address 8 has been encoded with offset 8
C21_Witness ==
  /\ phase = "enc"
  /\ index >= 1
  /\ should_warn("immediate_range")
  /\ get_type(clean_lines[1].head) = "J"
  /\ RefersToLabel(1)
  /\ LabelAddr(labels, LabelOperand(clean_lines[1])) = 8
  /\ OffsetOf(1) = 8
  /\ IsInt(ListGet(memory, 1))

====
